---- MODULE Spec2Model ----
(***************************************************************************)
(* State-machine model of sqs-reader (src/src/main.rs): a single-threaded  *)
(* run of main() against an at-least-once queue service.  Every call to    *)
(* the queue client is one step; the service's answers are chosen          *)
(* nondeterministically from small sets.  What a test double of the client *)
(* would record (calls issued, per-message side effects, deliveries) is    *)
(* kept next to the program state.                                         *)
(***************************************************************************)
EXTENDS Integers, Sequences, FiniteSets, Bags, TLC

(* ------------------------------ bounds --------------------------------- *)
\* logical messages that sit on the source queue are 1..NumMsgs
NumMsgs == 2
\* largest number a --count string of the model denotes
MaxCount == 2
\* largest ApproximateNumberOfMessages value the service reports
MaxTotal == 2
\* receive_message calls the model follows before it stops exploring
MaxRecv == 4

(* ------------------------- program constants --------------------------- *)
DefaultCount == <<"1">>
MaxNumberOfMessages == 1
LeaseSeconds == 60
NoLease == 0

(* ------------------------------ Option --------------------------------- *)
None == <<>>
Some(x) == <<x>>
IsSome(o) == o # <<>>
Unwrap(o) == o[1]

MsgIds == 1..NumMsgs

(* ------------------------------ strings -------------------------------- *)
\* a string is a sequence of characters; decimal digits and one non-digit
DigitChars == <<"0", "1", "2", "3", "4", "5", "6", "7", "8", "9">>
IsDigit(c) == \E i \in 1..10 : DigitChars[i] = c
DigitVal(c) == (CHOOSE i \in 1..10 : DigitChars[i] = c) - 1

RECURSIVE ParseDigits(_, _)
\* accumulate the digits of s left to right; None on a non-digit (the
\* numerals of the model stay far below u32::MAX, so none overflows)
ParseDigits(s, acc) ==
    IF s = <<>> THEN Some(acc)
    ELSE IF ~IsDigit(Head(s)) THEN None
    ELSE ParseDigits(Tail(s), acc * 10 + DigitVal(Head(s)))

\* str::parse::<u32>(): the empty string and any non-digit are errors
ParseU32(s) == IF s = <<>> THEN None ELSE ParseDigits(s, 0)

\* the numeral of n (n < 10 suffices for the bounds used)
Numeral(n) == <<DigitChars[n + 1]>>
NumberStrings(max) == {Numeral(n) : n \in 0..max} \cup {<<"x">>, <<>>}

(* --------------------------- configuration ----------------------------- *)
\* the parsed command line: flags of USAGE; count is Some(string) when
\* --count=<n> was given and None otherwise; --all excludes --count
Args ==
    {a \in [stdout : BOOLEAN, out_queue : BOOLEAN, drain : BOOLEAN,
            all : BOOLEAN, block : BOOLEAN, full : BOOLEAN,
            count : {None} \cup {Some(s) : s \in NumberStrings(MaxCount)}] :
        a.all => a.count = None}

\* args.get_str("--count"): docopt fills in the default of the usage text
GetStrCount(a) == IF IsSome(a.count) THEN Unwrap(a.count) ELSE DefaultCount

VARIABLES
    args,           \* parsed command line, fixed for the run
    pc,             \* position of main()
    failure,        \* panic message class once pc = "failed", else "none"
    total,          \* approximate queue size read at line 88
    count,          \* collection target of lines 95-99
    all_messages,   \* FnvHashMap message_id -> Message
    pending,        \* entries the disposition loop has not yet visited
    cur,            \* Option: the entry the disposition loop is at
    step,           \* index into DispOrder of the next step for cur
    calls,          \* calls issued to the client so far, per operation
    failedCalls,    \* client calls the service answered with an error
    sizeResponse,   \* Option: the answer to the size query
    requests,       \* the receive requests issued so far
    effects,        \* bag of the prints, sends and deletes issued per message
    srcQueue,       \* service: logical messages on the source queue
    destQueue,      \* service: bodies that arrived on the destination queue
    receiveCount,   \* service: deliveries of each logical message so far
    lastHandle,     \* the receipt_handle field of the newest response that
                    \* carried each identity
    anonymous       \* received messages that carried no identity

vars == <<args, pc, failure, total, count, all_messages, pending, cur, step,
          calls, failedCalls, sizeResponse, requests, effects, srcQueue,
          destQueue, receiveCount, lastHandle, anonymous>>

\* variables no step of the disposition loop and no call changes
progVars == <<args, total, count>>

EmptyMap == [i \in {} |-> None]

ClientOps == {"get_queue_url", "get_queue_attributes", "receive_message"}

Init ==
    /\ args \in Args
    /\ pc = "in_url"
    /\ failure = "none"
    /\ total = 0
    /\ count = 0
    /\ all_messages = EmptyMap
    /\ pending = {}
    /\ cur = None
    /\ step = 1
    /\ calls = [op \in ClientOps |-> 0]
    /\ failedCalls = 0
    /\ sizeResponse = None
    /\ requests = {}
    /\ effects = EmptyBag
    /\ srcQueue = MsgIds
    /\ destQueue = {}
    /\ receiveCount = [m \in MsgIds |-> 0]
    /\ lastHandle = [m \in MsgIds |-> None]
    /\ anonymous = 0

\* one more call of operation op; failed tells whether the service refused
Issue(op, failed) ==
    /\ calls' = [calls EXCEPT ![op] = @ + 1]
    /\ failedCalls' = IF failed THEN failedCalls + 1 ELSE failedCalls

\* a side effect issued for message id: handle is the Option receipt handle
\* of a delete (None for the other operations), ok the answer
Effect(op, id, handle, ok) == [op |-> op, id |-> id, handle |-> handle, ok |-> ok]

Panic(msg) ==
    /\ pc' = "failed"
    /\ failure' = msg

(* --------------------------- queue url lookup -------------------------- *)
\* answers of GetQueueUrl: an error, or a result whose queue_url is an Option
UrlResponses == {[ok |-> FALSE, queue_url |-> None],
                 [ok |-> TRUE, queue_url |-> None],
                 [ok |-> TRUE, queue_url |-> Some("url")]}

\* get_queue_url: "ok", "err" (Err returned to the caller) or "panic"
GetQueueUrlOutcome(r) ==
    IF ~r.ok THEN "err"
    ELSE IF IsSome(r.queue_url) THEN "ok" ELSE "panic"

\* lines 65-67
ResolveInUrl ==
    /\ pc = "in_url"
    /\ \E r \in UrlResponses :
        /\ Issue("get_queue_url", ~r.ok)
        /\ IF GetQueueUrlOutcome(r) = "ok"
           THEN pc' = "out_url" /\ UNCHANGED failure
           ELSE Panic(IF r.ok THEN "MissingField" ELSE "ResolutionError")
    /\ UNCHANGED <<progVars, all_messages, pending, cur, step, sizeResponse,
                   requests, effects, srcQueue, destQueue, receiveCount,
                   lastHandle, anonymous>>

\* lines 70-76: only when <out-queue> was given
ResolveOutUrl ==
    /\ pc = "out_url"
    /\ IF args.out_queue
       THEN \E r \in UrlResponses :
            /\ Issue("get_queue_url", ~r.ok)
            /\ IF GetQueueUrlOutcome(r) = "ok"
               THEN pc' = "check_sinks" /\ UNCHANGED failure
               ELSE Panic(IF r.ok THEN "MissingField" ELSE "ResolutionError")
       ELSE /\ pc' = "check_sinks"
            /\ UNCHANGED <<failure, calls, failedCalls>>
    /\ UNCHANGED <<progVars, all_messages, pending, cur, step, sizeResponse,
                   requests, effects, srcQueue, destQueue, receiveCount,
                   lastHandle, anonymous>>

\* variant: the sink check is left out
SinkMissingNever(a) == FALSE

\* line 78; out_url.is_some() iff a name was given and resolved
SinkMissing(a) == ~a.stdout /\ ~a.out_queue

\* lines 78-80
CheckSinks ==
    /\ pc = "check_sinks"
    /\ IF SinkMissing(args)
       THEN Panic("ConfigurationError")
       ELSE pc' = "size" /\ UNCHANGED failure
    /\ UNCHANGED <<progVars, all_messages, pending, cur, step, calls,
                   failedCalls, sizeResponse, requests, effects, srcQueue,
                   destQueue, receiveCount, lastHandle, anonymous>>

(* --------------------------- target resolution ------------------------- *)
SizeAttribute == {None} \cup {Some(s) : s \in NumberStrings(MaxTotal)}

\* answers of GetQueueAttributes: an error, or a result whose attributes
\* map is absent, lacks ApproximateNumberOfMessages, or holds a string
SizeResponses ==
    {[ok |-> FALSE, attributes |-> None], [ok |-> TRUE, attributes |-> None]}
    \cup {[ok |-> TRUE, attributes |-> Some(v)] : v \in SizeAttribute}

\* get_size: the attribute parsed as u32, None when anything is missing
GetSize(m) ==
    IF ~IsSome(m.attributes) THEN None
    ELSE LET value == Unwrap(m.attributes)
         IN  IF ~IsSome(value) THEN None ELSE ParseU32(Unwrap(value))

\* get_approximate_queue_size: Some(n), or None for Err("no count provided")
GetApproximateQueueSize(r) == IF ~r.ok THEN None ELSE GetSize(r)

Min(a, b) == IF a <= b THEN a ELSE b

\* variant: an unusable size counts as an empty queue (unwrap_or(0))
ExpectSizeOrZero(size) == IF IsSome(size) THEN size ELSE Some(0)

\* .expect("Could not get approximate input queue size"), line 89: the
\* Option goes through unchanged and None is the panic
ExpectSize(size) == size

\* variant: --all is ignored and the --count string is parsed
UserSpecifiedCountIgnoreAll(a, t) == ParseU32(GetStrCount(a))

\* user_specified_count, lines 91-93: Option, None when --count does not parse
UserSpecifiedCount(a, t) ==
    IF a.all THEN Some(t) ELSE ParseU32(GetStrCount(a))

\* variant: the count is never capped by the queue size
ResolveCountNoMin(block, t, user_specified_count) == user_specified_count

\* count, lines 95-99
ResolveCount(block, t, user_specified_count) ==
    IF block THEN user_specified_count ELSE Min(t, user_specified_count)

\* lines 88-99: the size query, then the count; no other call in between
ResolveTarget ==
    /\ pc = "size"
    /\ \E r \in SizeResponses :
        LET size == ExpectSize(GetApproximateQueueSize(r))
        IN  /\ Issue("get_queue_attributes", ~r.ok)
            /\ sizeResponse' = Some(r)
            /\ IF ~IsSome(size)
               THEN Panic("SizeUnavailable") /\ UNCHANGED <<total, count>>
               ELSE LET usc == UserSpecifiedCount(args, Unwrap(size))
                    IN  IF ~IsSome(usc)
                        THEN /\ Panic("CountUnparsable")
                             /\ total' = Unwrap(size)
                             /\ UNCHANGED count
                        ELSE /\ total' = Unwrap(size)
                             /\ count' = ResolveCount(args.block, Unwrap(size),
                                                      Unwrap(usc))
                             /\ pc' = "poll"
                             /\ UNCHANGED failure
    /\ UNCHANGED <<args, all_messages, pending, cur, step, requests, effects,
                   srcQueue, destQueue, receiveCount, lastHandle, anonymous>>

(* ------------------------------ poll loop ------------------------------ *)
Fields == {"message_id", "body", "receipt_handle", "md5_of_body"}

\* a delivery is complete or lacks one of its optional fields
MissingSets == {{}} \cup {{f} : f \in Fields}

\* the receipt handle of the k-th delivery of logical message m
Handle(m, k) == <<m, k>>

\* the deliveries of logical message m under receipt handle h: its identity
\* and body stand for m
Deliveries(m, h) ==
    {[message_id     |-> IF "message_id" \in missing THEN None ELSE Some(m),
      body           |-> IF "body" \in missing THEN None ELSE Some(m),
      receipt_handle |-> IF "receipt_handle" \in missing THEN None ELSE Some(h),
      md5_of_body    |-> IF "md5_of_body" \in missing THEN None ELSE Some("md5")] :
        missing \in MissingSets}

\* what a receive can return: at most max_number_of_messages deliveries of
\* messages that are on the queue, each under a fresh handle; of[i] is the
\* logical message behind messages[i], known to the service only
Picks ==
    UNION {[1..n -> UNION {{[of |-> m, message |-> d] :
                               d \in Deliveries(m, Handle(m, receiveCount[m] + 1))} :
                              m \in srcQueue}] :
              n \in 0..MaxNumberOfMessages}

ReceiveResponses ==
    {[ok |-> FALSE, messages |-> None, of |-> <<>>],
     [ok |-> TRUE, messages |-> None, of |-> <<>>]}
    \cup {[ok |-> TRUE,
           messages |-> Some([i \in 1..Len(p) |-> p[i].message]),
           of |-> [i \in 1..Len(p) |-> p[i].of]] : p \in Picks}

\* variant: the first value stored under a key is kept (entry().or_insert)
MapInsertKeepFirst(map, k, v) ==
    [x \in DOMAIN map \cup {k} |-> IF x \in DOMAIN map THEN map[x] ELSE v]

\* variant: the map is rebuilt with the new entry alone
MapInsertReplaceAll(map, k, v) == [x \in {k} |-> v]

\* FnvHashMap::insert: the new value replaces an entry with the same key
MapInsert(map, k, v) ==
    [x \in DOMAIN map \cup {k} |-> IF x = k THEN v ELSE map[x]]

RECURSIVE InsertAllSkipNoId(_, _)
\* variant: a message without id is skipped instead of ending the run
InsertAllSkipNoId(map, messages) ==
    IF messages = <<>> THEN [ok |-> TRUE, map |-> map]
    ELSE LET message == Head(messages)
         IN  IF ~IsSome(message.message_id)
             THEN InsertAllSkipNoId(map, Tail(messages))
             ELSE InsertAllSkipNoId(
                      MapInsert(map, Unwrap(message.message_id), message),
                      Tail(messages))

RECURSIVE InsertAll(_, _)
\* lines 116-119: insert each message under its id; ok is FALSE when a
\* message has no id (expect("getting id") panics)
InsertAll(map, messages) ==
    IF messages = <<>> THEN [ok |-> TRUE, map |-> map]
    ELSE LET message == Head(messages)
         IN  IF ~IsSome(message.message_id)
             THEN [ok |-> FALSE, map |-> map]
             ELSE InsertAll(MapInsert(map, Unwrap(message.message_id), message),
                            Tail(messages))

\* variant: the lease is taken whether or not the run drains
VisibilityTimeoutAlwaysLease(drain) == LeaseSeconds

\* line 110
VisibilityTimeout(drain) == IF drain THEN LeaseSeconds ELSE NoLease

\* variant: the loop runs once more when the target is met
LoopConditionOffByOne(map, c) == Cardinality(DOMAIN map) <= c

\* line 103
LoopCondition(map, c) == Cardinality(DOMAIN map) < c

\* variant: the break is taken in blocking mode only
BreakOnEmptyBlockOnly(block, current_count) == block /\ current_count = 0

\* variant: an empty response never ends the loop
BreakNever(block, current_count) == FALSE

\* variant: an empty response ends the loop in every mode
BreakOnEmptyAlways(block, current_count) == current_count = 0

\* line 124
BreakOnEmpty(block, current_count) == ~block /\ current_count = 0

\* the handle field that came last with identity id in messages, else old
NewestHandle(messages, id, old) ==
    LET with == {i \in 1..Len(messages) : messages[i].message_id = Some(id)}
    IN  IF with = {} THEN old
        ELSE messages[CHOOSE i \in with : \A j \in with : j <= i].receipt_handle

\* one iteration of the loop body, lines 104-126
Receive ==
    /\ pc = "poll"
    /\ LoopCondition(all_messages, count)
    /\ calls["receive_message"] < MaxRecv
    /\ \E r \in ReceiveResponses :
        LET messages == IF IsSome(r.messages) THEN Unwrap(r.messages) ELSE <<>>
            current_count == Len(messages)
            ins == InsertAll(all_messages, messages)
            request == [max_number_of_messages |-> MaxNumberOfMessages,
                        visibility_timeout |-> VisibilityTimeout(args.drain)]
        IN  /\ Issue("receive_message", ~r.ok)
            /\ requests' = requests \cup {request}
            /\ receiveCount' =
                  [m \in MsgIds |->
                      receiveCount[m]
                      + Cardinality({i \in 1..Len(r.of) : r.of[i] = m})]
            /\ lastHandle' =
                  [id \in MsgIds |-> NewestHandle(messages, id, lastHandle[id])]
            /\ anonymous' =
                  anonymous
                  + Cardinality({i \in 1..Len(messages) :
                                    ~IsSome(messages[i].message_id)})
            /\ IF ~r.ok
               THEN Panic("ClientError") /\ UNCHANGED <<all_messages, pending>>
               ELSE IF ~ins.ok
               THEN Panic("MissingField") /\ UNCHANGED <<all_messages, pending>>
               ELSE /\ all_messages' = ins.map
                    /\ UNCHANGED failure
                    /\ IF BreakOnEmpty(args.block, current_count)
                       THEN pc' = "dispose" /\ pending' = DOMAIN ins.map
                       ELSE pc' = "poll" /\ UNCHANGED pending
    /\ UNCHANGED <<progVars, cur, step, sizeResponse, effects, srcQueue,
                   destQueue>>

\* the while condition is false: fall through to the disposition loop
PollExit ==
    /\ pc = "poll"
    /\ ~LoopCondition(all_messages, count)
    /\ pc' = "dispose"
    /\ pending' = DOMAIN all_messages
    /\ UNCHANGED <<progVars, failure, all_messages, cur, step, calls,
                   failedCalls, sizeResponse, requests, effects, srcQueue,
                   destQueue, receiveCount, lastHandle, anonymous>>

(* --------------------------- disposition loop -------------------------- *)
\* variant: the entry is deleted first (drain before print and forward)
DispOrderDeleteFirst == <<"delete", "print", "send">>

\* variant: the entry is deleted before it is forwarded
DispOrderSendLast == <<"print", "delete", "send">>

\* variant: the drain step is missing
DispOrderNoDelete == <<"print", "send">>

\* variant: the entry is printed twice
DispOrderPrintTwice == <<"print", "print", "send", "delete">>

\* the side effects of one message in the order of lines 132-153
DispOrder == <<"print", "send", "delete">>

\* move to the next step of cur, or leave the loop body after the last one
Advance ==
    IF step = Len(DispOrder)
    THEN cur' = None /\ step' = 1
    ELSE step' = step + 1 /\ UNCHANGED cur

\* the bag of effects with one more
Record(e) == effects (+) SetToBag({e})

\* variant: the for loop sits inside the while loop, so a run whose target
\* is not met polls again after the entries have been visited
DispNextRepoll ==
    /\ pc = "dispose"
    /\ cur = None
    /\ IF pending = {}
       THEN /\ pc' = IF LoopCondition(all_messages, count) THEN "poll"
                     ELSE "done"
            /\ UNCHANGED <<failure, pending, cur, step>>
       ELSE \E id \in pending :
            /\ pending' = pending \ {id}
            /\ IF IsSome(all_messages[id].body)
               THEN /\ cur' = Some(id)
                    /\ step' = 1
                    /\ UNCHANGED <<pc, failure>>
               ELSE Panic("MissingField") /\ UNCHANGED <<cur, step>>
    /\ UNCHANGED <<progVars, all_messages, calls, failedCalls, sizeResponse,
                   requests, effects, srcQueue, destQueue, receiveCount,
                   lastHandle, anonymous>>

\* lines 129-130: the iterator yields some entry not yet visited (hash
\* order) and its body is unwrapped; with none left main returns
DispNext ==
    /\ pc = "dispose"
    /\ cur = None
    /\ IF pending = {}
       THEN /\ pc' = "done"
            /\ UNCHANGED <<failure, pending, cur, step>>
       ELSE \E id \in pending :
            /\ pending' = pending \ {id}
            /\ IF IsSome(all_messages[id].body)
               THEN /\ cur' = Some(id)
                    /\ step' = 1
                    /\ UNCHANGED <<pc, failure>>
               ELSE Panic("MissingField") /\ UNCHANGED <<cur, step>>
    /\ UNCHANGED <<progVars, all_messages, calls, failedCalls, sizeResponse,
                   requests, effects, srcQueue, destQueue, receiveCount,
                   lastHandle, anonymous>>

\* print_full_message: every field but attributes is unwrapped
FullRecordComplete(message) ==
    /\ IsSome(message.body)
    /\ IsSome(message.receipt_handle)
    /\ IsSome(message.md5_of_body)
    /\ IsSome(message.message_id)

\* lines 132-138
StepPrint ==
    /\ pc = "dispose"
    /\ IsSome(cur)
    /\ DispOrder[step] = "print"
    /\ LET id == Unwrap(cur)
           message == all_messages[id]
       IN  IF ~args.stdout
           THEN Advance /\ UNCHANGED <<pc, failure, effects>>
           ELSE IF args.full /\ ~FullRecordComplete(message)
           THEN Panic("MissingField") /\ UNCHANGED <<effects, cur, step>>
           ELSE /\ effects' = Record(Effect("print", id, None, TRUE))
                /\ Advance
                /\ UNCHANGED <<pc, failure>>
    /\ UNCHANGED <<progVars, all_messages, pending, calls, failedCalls,
                   sizeResponse, requests, srcQueue, destQueue, receiveCount,
                   lastHandle, anonymous>>

\* answers of SendMessage: an error, or a result with optional fields
SendResponses ==
    {[ok |-> FALSE, md5_of_message_body |-> None, message_id |-> None]}
    \cup {[ok |-> TRUE, md5_of_message_body |-> m, message_id |-> i] :
              m \in {None, Some("md5")}, i \in {None, Some("new")}}

\* variant: a failed send is not noticed
SendMessageOutcomeLenient(r) ==
    IF ~r.ok \/ (IsSome(r.md5_of_message_body) /\ IsSome(r.message_id))
    THEN "ok"
    ELSE "MissingField"

\* send_message: "ok" when the acknowledgment can be built, else the panic
SendMessageOutcome(r) ==
    IF ~r.ok THEN "ClientError"
    ELSE IF IsSome(r.md5_of_message_body) /\ IsSome(r.message_id) THEN "ok"
    ELSE "MissingField"

\* lines 140-143: the body goes to the destination, the acknowledgment of
\* the destination is printed
StepSend ==
    /\ pc = "dispose"
    /\ IsSome(cur)
    /\ DispOrder[step] = "send"
    /\ LET id == Unwrap(cur)
           body == Unwrap(all_messages[id].body)
       IN  IF ~args.out_queue
           THEN Advance /\ UNCHANGED <<pc, failure, effects, destQueue,
                                       failedCalls>>
           ELSE \E r \in SendResponses :
                /\ destQueue' = IF r.ok THEN destQueue \cup {body}
                                ELSE destQueue
                /\ failedCalls' = IF r.ok THEN failedCalls ELSE failedCalls + 1
                /\ IF SendMessageOutcome(r) = "ok"
                   THEN /\ effects' = Record(Effect("send_message", id, None, r.ok))
                                      (+) SetToBag({Effect("print_ack", id, None, TRUE)})
                        /\ Advance
                        /\ UNCHANGED <<pc, failure>>
                   ELSE /\ effects' = Record(Effect("send_message", id, None, r.ok))
                        /\ Panic(SendMessageOutcome(r))
                        /\ UNCHANGED <<cur, step>>
    /\ UNCHANGED <<progVars, all_messages, pending, calls, sizeResponse,
                   requests, srcQueue, receiveCount, lastHandle, anonymous>>

\* source queues a successful DeleteMessage with handle h can leave: the
\* message is gone when h is its newest handle; with an older handle the
\* service may or may not remove it
AfterDelete(h) ==
    IF receiveCount[h[1]] = h[2]
    THEN {srcQueue \ {h[1]}}
    ELSE {srcQueue \ {h[1]}, srcQueue}

\* lines 147-153
StepDelete ==
    /\ pc = "dispose"
    /\ IsSome(cur)
    /\ DispOrder[step] = "delete"
    /\ LET id == Unwrap(cur)
           handle == all_messages[id].receipt_handle
       IN  IF ~args.drain
           THEN Advance /\ UNCHANGED <<pc, failure, effects, srcQueue,
                                       failedCalls>>
           ELSE IF ~IsSome(handle)
           THEN /\ Panic("MissingField")
                /\ UNCHANGED <<effects, srcQueue, cur, step, failedCalls>>
           ELSE \E ok \in BOOLEAN :
                /\ effects' = Record(Effect("delete_message", id, handle, ok))
                /\ failedCalls' = IF ok THEN failedCalls ELSE failedCalls + 1
                /\ IF ok
                   THEN /\ srcQueue' \in AfterDelete(Unwrap(handle))
                        /\ Advance
                        /\ UNCHANGED <<pc, failure>>
                   ELSE /\ Panic("ClientError")
                        /\ UNCHANGED <<srcQueue, cur, step>>
    /\ UNCHANGED <<progVars, all_messages, pending, calls, sizeResponse,
                   requests, destQueue, receiveCount, lastHandle, anonymous>>

Next ==
    \/ ResolveInUrl
    \/ ResolveOutUrl
    \/ CheckSinks
    \/ ResolveTarget
    \/ Receive
    \/ PollExit
    \/ DispNext
    \/ StepPrint
    \/ StepSend
    \/ StepDelete

Spec == Init /\ [][Next]_vars

(* =============================== claims ================================ *)
RecvCalls == calls["receive_message"]

Issued == BagToSet(effects)

\* a delete call was issued for message id
DeleteIssued(id) ==
    \E e \in Issued : e.op = "delete_message" /\ e.id = id

\* a delete call for message id was refused by the service
DeleteFailed(id) ==
    \E e \in Issued : e.op = "delete_message" /\ e.id = id /\ ~e.ok

Printed(id) == BagIn(Effect("print", id, None, TRUE), effects)

\* the send of message id succeeded and its acknowledgment was printed
Sent(id) ==
    /\ BagIn(Effect("send_message", id, None, TRUE), effects)
    /\ BagIn(Effect("print_ack", id, None, TRUE), effects)

SendFailed(id) == BagIn(Effect("send_message", id, None, FALSE), effects)

\* C1: in every state, a message for which a delete call has been issued
\* has already been printed when --stdout is on and successfully sent when a
\* destination is configured (so in the state a delete is first recorded
\* its print and send are already on record); a message that is gone from
\* the source queue has been printed / forwarded as configured.
C1_DeleteAfterEffects ==
    /\ \A id \in MsgIds :
          DeleteIssued(id) =>
            /\ args.stdout => Printed(id)
            /\ args.out_queue => Sent(id)
    /\ \A m \in MsgIds \ srcQueue :
          /\ args.stdout => Printed(m)
          /\ args.out_queue => m \in destQueue

C1_Witness ==
    /\ args.stdout
    /\ args.out_queue
    /\ \E id \in MsgIds : DeleteIssued(id) /\ ~DeleteFailed(id)
    /\ srcQueue # MsgIds

\* C2: a message whose send call failed has no delete call on record.
C2_NoDeleteAfterFailedSend ==
    \A id \in MsgIds : SendFailed(id) => ~DeleteIssued(id)

C2_Witness ==
    /\ args.drain
    /\ pc = "failed"
    /\ \E id \in MsgIds : SendFailed(id)
    /\ \E id \in MsgIds : DeleteIssued(id)

\* C3: with a destination and --drain, every logical message is on the
\* source queue or on the destination queue; after a failed delete the
\* message is on both.
C3_NoMessageLost ==
    (args.out_queue /\ args.drain) =>
        /\ \A m \in MsgIds : m \in srcQueue \/ m \in destQueue
        /\ \A id \in MsgIds :
              DeleteFailed(id) => id \in srcQueue \cap destQueue

C3_Witness ==
    /\ args.out_queue
    /\ args.drain
    /\ \E id \in MsgIds : DeleteFailed(id) /\ id \in destQueue
    /\ srcQueue # MsgIds

\* C4: while the run has not panicked, the collected set has exactly the
\* identities that were delivered, one entry each however often they came;
\* the handle stored with an entry is the handle field of the newest
\* delivery (when present, the handle of delivery number receiveCount), and
\* it is the handle of every delete call for that identity.
C4_DedupLastHandle ==
    /\ pc # "failed" =>
          DOMAIN all_messages = {id \in MsgIds : receiveCount[id] > 0}
    /\ \A id \in DOMAIN all_messages :
          LET handle == all_messages[id].receipt_handle
          IN  /\ handle = lastHandle[id]
              /\ (pc # "failed" /\ IsSome(handle)) =>
                    Unwrap(handle) = Handle(id, receiveCount[id])
    /\ \A e \in Issued :
          e.op = "delete_message" =>
              e.handle = Some(Handle(e.id, receiveCount[e.id]))

C4_Witness ==
    \E id \in DOMAIN all_messages :
        /\ receiveCount[id] >= 3
        /\ DeleteIssued(id)

\* no logical message was delivered twice: the queue yields each message
\* once and is empty afterwards
Exhaustible == \A m \in MsgIds : receiveCount[m] <= 1

\* C5: in non-blocking mode against a queue that yields each message once
\* and then nothing, the loop has issued at most count + 1 receive calls,
\* and fewer than count while it can still issue one.
C5_NonBlockingBound ==
    (~args.block /\ Exhaustible) =>
        /\ RecvCalls <= count + 1
        /\ (pc = "poll" /\ LoopCondition(all_messages, count)) =>
              RecvCalls < count

C5_Witness ==
    /\ ~args.block
    /\ Exhaustible
    /\ count = MaxCount
    /\ pc = "dispose"
    /\ RecvCalls = count
    /\ Cardinality(DOMAIN all_messages) = count - 1

RECURSIVE SumExtra(_)
\* deliveries beyond the first, summed over the messages of S
SumExtra(S) ==
    IF S = {} THEN 0
    ELSE LET m == CHOOSE x \in S : TRUE
         IN  (IF receiveCount[m] > 1 THEN receiveCount[m] - 1 ELSE 0)
             + SumExtra(S \ {m})

\* receive calls that delivered a logical message delivered before
Redeliveries == SumExtra(MsgIds)

\* C6 as stated: in non-blocking mode the loop issues at most count + 1
\* receive calls whatever the queue delivers.
C6_Original_BoundForEveryDelivery ==
    ~args.block => RecvCalls <= count + 1

\* C6 amended: in non-blocking mode the number of receive calls is at most
\* count + 1 plus the number of redeliveries of an identity already
\* collected; each redelivery costs one more round trip.
C6_BoundPlusRedeliveries ==
    ~args.block =>
        /\ RecvCalls <= count + Redeliveries + 1
        /\ (pc = "poll" /\ LoopCondition(all_messages, count)) =>
              RecvCalls < count + Redeliveries

C6_Witness ==
    /\ ~args.block
    /\ Redeliveries >= 2
    /\ RecvCalls > count + 1
    /\ pc = "dispose"

\* every receive call so far returned successfully with no message
AllEmpty ==
    /\ \A m \in MsgIds : receiveCount[m] = 0
    /\ failure # "ClientError"

\* C7: in blocking mode with a positive target, as long as every receive
\* came back empty the run is still in the poll loop.
C7_BlockingKeepsPolling ==
    (args.block /\ count > 0 /\ AllEmpty) =>
        pc = "poll" /\ LoopCondition(all_messages, count)

C7_Witness ==
    /\ args.block
    /\ count > 0
    /\ AllEmpty
    /\ RecvCalls = MaxRecv

\* the target has been computed
Resolved == pc \in {"poll", "dispose", "done"}

\* --count=<n> was given and n is a number
FixedCount == IsSome(args.count) /\ IsSome(ParseU32(Unwrap(args.count)))
FixedN == Unwrap(ParseU32(Unwrap(args.count)))

\* C8 as stated: with a fixed count N the target is N for every queue size,
\* blocking or not.
C8_Original_FixedIsN ==
    (Resolved /\ FixedCount) => count = FixedN

\* C8 amended: with a fixed count N the target is N in blocking mode and
\* min(N, approximate queue size) in non-blocking mode.
C8_FixedCappedWhenNonBlocking ==
    (Resolved /\ FixedCount) =>
        /\ args.block => count = FixedN
        /\ (~args.block /\ total >= FixedN) => count = FixedN
        /\ (~args.block /\ total < FixedN) => count = total

C8_Witness ==
    /\ Resolved
    /\ FixedCount
    /\ ~args.block
    /\ total < FixedN
    /\ count = total

\* C9: with --all the target is the approximate size; with no count given
\* it is min(size, 1) in non-blocking mode and 1 in blocking mode.
C9_OtherModes ==
    Resolved =>
        /\ args.all => count = total
        /\ (~args.all /\ args.count = None /\ ~args.block) =>
              /\ total = 0 => count = 0
              /\ total >= 1 => count = 1
        /\ (~args.all /\ args.count = None /\ args.block) => count = 1

C9_Witness ==
    /\ Resolved
    /\ args.all
    /\ args.block
    /\ total = MaxTotal
    /\ count = MaxTotal

\* the answer to the size query carries no usable number
Unusable(r) ==
    \/ ~r.ok
    \/ ~IsSome(r.attributes)
    \/ ~IsSome(Unwrap(r.attributes))
    \/ \A n \in 0..MaxTotal : Unwrap(Unwrap(r.attributes)) # Numeral(n)

SizeQueryUnusable == IsSome(sizeResponse) /\ Unusable(Unwrap(sizeResponse))

\* C10 as stated: an unusable size is fatal only with --all or with no
\* count and no --block.
C10_Original_FatalOnlyWhenNeeded ==
    failure = "SizeUnavailable" =>
        args.all \/ (args.count = None /\ ~args.block)

\* C10 amended: an unusable size is fatal in every mode, fixed count
\* included; the run ends there and no receive is issued.
C10_SizeFailureAlwaysFatal ==
    SizeQueryUnusable =>
        /\ pc = "failed"
        /\ failure = "SizeUnavailable"
        /\ RecvCalls = 0

C10_Witness ==
    /\ SizeQueryUnusable
    /\ FixedCount
    /\ args.block
    /\ pc = "failed"

\* C11: a client call the service refuses ends the run at once: there is at
\* most one refused call, the run is then in its failed state, and no call
\* and no side effect is issued after it; when the refused call was a
\* receive, no message was printed, forwarded or deleted at all.
C11_FailedCallEndsRun ==
    /\ [](failedCalls > 0 => (pc = "failed" /\ failedCalls = 1))
    /\ []((failure = "ClientError" /\ \A e \in Issued : e.ok) =>
              effects = EmptyBag)
    /\ [][failedCalls > 0 => UNCHANGED <<calls, effects, failedCalls>>]_vars

C11_Witness ==
    /\ failure = "ClientError"
    /\ RecvCalls >= 2
    /\ DOMAIN all_messages # {}
    /\ effects = EmptyBag
    /\ failedCalls = 1

\* C12 as stated: the configuration error comes before any call to the
\* queue client.
C12_Original_NoCallBeforeConfigError ==
    failure = "ConfigurationError" => \A op \in ClientOps : calls[op] = 0

\* C12 amended: with neither --stdout nor a destination the run never gets
\* to a size query, a receive, a send, a delete or a print; the one call
\* that precedes the configuration error is the url lookup of the source
\* queue (and when that lookup fails the run ends there instead).
C12_OnlyUrlLookupBeforeConfigError ==
    /\ (~args.stdout /\ ~args.out_queue) =>
          /\ calls["get_queue_url"] <= 1
          /\ calls["get_queue_attributes"] = 0
          /\ calls["receive_message"] = 0
          /\ effects = EmptyBag
          /\ pc \in {"in_url", "out_url", "check_sinks", "failed"}
    /\ failure = "ConfigurationError" =>
          /\ ~args.stdout /\ ~args.out_queue
          /\ calls["get_queue_url"] = 1
          /\ failedCalls = 0

C12_Witness ==
    /\ failure = "ConfigurationError"
    /\ pc = "failed"
    /\ calls["get_queue_url"] = 1

RECURSIVE SumCount(_)
\* deliveries summed over the messages of S
SumCount(S) ==
    IF S = {} THEN 0
    ELSE LET m == CHOOSE x \in S : TRUE
         IN  receiveCount[m] + SumCount(S \ {m})

\* messages the queue has handed out so far
Delivered == SumCount(MsgIds)

Collected == Cardinality(DOMAIN all_messages)

\* every configured side effect of entry id is on record
Disposed(id) ==
    /\ args.stdout => Printed(id)
    /\ args.out_queue => Sent(id)
    /\ args.drain => (DeleteIssued(id) /\ ~DeleteFailed(id))

\* C13 as stated: a non-blocking run with fixed count N that reaches
\* disposition with fewer than N entries stopped on an empty receive.
C13_Original_StarvedBelowFixedCount ==
    (~args.block /\ FixedCount /\ pc \in {"dispose", "done"}
        /\ Collected < FixedN) =>
        RecvCalls > Delivered

\* C13 amended: a non-blocking run that reaches disposition with fewer
\* entries than the target (min(N, approximate size)) stopped on one empty
\* receive, its set holds exactly the messages that were delivered, and a
\* finished run has disposed every entry of that partial set.
C13_StarvedBelowTarget ==
    (~args.block /\ pc \in {"dispose", "done"} /\ Collected < count) =>
        /\ RecvCalls = Delivered + 1
        /\ DOMAIN all_messages = {m \in MsgIds : receiveCount[m] > 0}
        /\ pc = "done" => \A id \in DOMAIN all_messages : Disposed(id)

C13_Witness ==
    /\ ~args.block
    /\ FixedCount
    /\ FixedN = 2
    /\ count = 2
    /\ Collected = 1
    /\ RecvCalls = 2
    /\ pc = "done"
    /\ args.drain
    /\ args.stdout

RECURSIVE SumCopies(_)
\* copies in effects summed over the records of S
SumCopies(S) ==
    IF S = {} THEN 0
    ELSE LET e == CHOOSE x \in S : TRUE
         IN  CopiesIn(e, effects) + SumCopies(S \ {e})

\* calls of operation op on record for message id
Times(op, id) == SumCopies({e \in Issued : e.op = op /\ e.id = id})

Once(flag) == IF flag THEN 1 ELSE 0

\* C14: when the run has finished without error, every entry of the
\* collected set has exactly one print if --stdout is on, one send (and one
\* printed acknowledgment) if a destination is configured and one delete if
\* --drain is on; there is no call of a kind that is off and none for an
\* identity that is not in the set.
C14_DisposedExactlyOnce ==
    pc = "done" =>
        \A id \in MsgIds :
            LET in == id \in DOMAIN all_messages
            IN  /\ Times("print", id) = Once(in /\ args.stdout)
                /\ Times("send_message", id) = Once(in /\ args.out_queue)
                /\ Times("print_ack", id) = Once(in /\ args.out_queue)
                /\ Times("delete_message", id) = Once(in /\ args.drain)

C14_Witness ==
    /\ pc = "done"
    /\ args.stdout
    /\ ~args.full
    /\ ~args.out_queue
    /\ args.drain
    /\ ~args.block
    /\ count = MaxCount
    /\ Collected = count
    /\ RecvCalls = count + 1
    /\ Delivered = count + 1
    /\ BagCardinality(effects) = 2 * count

\* C15: once a message without identity has been received the run is in
\* its failed state with the missing-field panic; it was the last message
\* received, it is not in the collected set (every entry sits under its own
\* identity and the set is no larger than the deliveries that had one), and
\* nothing has been printed, forwarded or deleted.
C15_NoIdentityAborts ==
    /\ \A id \in DOMAIN all_messages : all_messages[id].message_id = Some(id)
    /\ Collected <= Delivered - anonymous
    /\ anonymous > 0 =>
          /\ anonymous = 1
          /\ pc = "failed"
          /\ failure = "MissingField"
          /\ effects = EmptyBag
          /\ cur = None
          /\ pending = {}

C15_Witness ==
    /\ anonymous = 1
    /\ Collected >= 1
    /\ RecvCalls >= 2
    /\ pc = "failed"

\* C16: every receive request of the run asks for at most one message and
\* carries visibility timeout 60 when --drain is on and 0 when it is off;
\* a run without --drain hides no message, issues no delete and leaves the
\* source queue as it was.
C16_ReceiveRequests ==
    /\ \A r \in requests :
          /\ r.max_number_of_messages <= 1
          /\ args.drain => r.visibility_timeout = 60
          /\ ~args.drain => r.visibility_timeout = 0
    /\ RecvCalls > 0 => requests # {}
    /\ ~args.drain =>
          /\ \A id \in MsgIds : ~DeleteIssued(id)
          /\ srcQueue = MsgIds

C16_Witness ==
    /\ ~args.drain
    /\ requests # {}
    /\ Collected = MaxCount
    /\ pc = "done"

\* C17: in blocking mode the disposition loop is entered only with the
\* target met: the collected set then holds exactly count identities.
C17_BlockingNeverStarved ==
    (args.block /\ pc \in {"dispose", "done"}) => Collected = count

C17_Witness ==
    /\ args.block
    /\ pc = "dispose"
    /\ count = MaxCount
    /\ Collected = count
    /\ RecvCalls > Delivered

\* the disposition loop has been entered
DispositionBegun == pc \in {"dispose", "done"} \/ effects # EmptyBag

\* C18: the size is queried and the target computed before the first
\* receive, and neither changes afterwards; up to and during the poll
\* loop nothing is printed, sent or deleted; once the disposition loop has
\* been entered no receive is issued and the collected set stays as it is.
C18_PhasesSequential ==
    /\ [](RecvCalls > 0 => calls["get_queue_attributes"] = 1)
    /\ [](pc \in {"in_url", "out_url", "check_sinks", "size", "poll"} =>
              (effects = EmptyBag /\ cur = None))
    /\ [][calls["get_queue_attributes"] > 0 =>
              (/\ count' = count
               /\ total' = total
               /\ calls'["get_queue_attributes"] = 1)]_vars
    /\ [][DispositionBegun =>
              (/\ RecvCalls' = RecvCalls
               /\ all_messages' = all_messages
               /\ pc' # "poll")]_vars

C18_Witness ==
    /\ pc = "dispose"
    /\ effects # EmptyBag
    /\ pending # {}
    /\ RecvCalls > Collected
    /\ calls["get_queue_attributes"] = 1

\* C19: a step taken in the poll loop removes no identity from the
\* collected set, and an entry that changes is replaced by a newer delivery
\* of the same identity.
C19_SetOnlyGrows ==
    [][pc = "poll" =>
          /\ DOMAIN all_messages \subseteq DOMAIN all_messages'
          /\ \A id \in DOMAIN all_messages :
                \/ all_messages'[id] = all_messages[id]
                \/ /\ all_messages'[id].message_id = Some(id)
                   /\ receiveCount'[id] = receiveCount[id] + 1
                   /\ all_messages'[id].receipt_handle = lastHandle'[id]]_vars

C19_Witness ==
    /\ pc = "poll"
    /\ Collected = 2
    /\ \E id \in DOMAIN all_messages : receiveCount[id] >= 2
    /\ \E id \in DOMAIN all_messages : receiveCount[id] = 1

\* identities for which some print, send or delete is on record
Touched == {e.id : e \in Issued}

\* C20: the collected set never has more identities than the target, so
\* at most count messages are printed, forwarded or deleted; with target 0
\* there is no receive and no disposition step.
C20_AtMostTarget ==
    /\ Collected <= count
    /\ Cardinality(Touched) <= count
    /\ Touched \subseteq DOMAIN all_messages
    /\ \A id \in MsgIds :
          /\ Times("print", id) <= 1
          /\ Times("send_message", id) <= 1
          /\ Times("delete_message", id) <= 1
    /\ count = 0 =>
          /\ RecvCalls = 0
          /\ effects = EmptyBag
          /\ cur = None

C20_Witness ==
    /\ pc = "done"
    /\ count = MaxCount
    /\ Collected = count
    /\ Touched = DOMAIN all_messages
    /\ RecvCalls > count

====
